---- MODULE Spec2Model ----
(***************************************************************************)
(* Model of the Task service of backend/app.py: one table of Task rows in  *)
(* the store and the five request handlers get_tasks, create_task,         *)
(* update_task, delete_task and health_check.  One request is handled at a *)
(* time; every step of the model is one whole request, from get_json() to  *)
(* the returned (body, status) pair, commit or rollback included.          *)
(*                                                                         *)
(* The store is the PostgreSQL database of the default connection string:  *)
(* the primary key is drawn from a sequence, VARCHAR(100) and NOT NULL are *)
(* enforced, now() is the store's clock.  A request either reaches the     *)
(* store for its whole duration or does not reach it at all (dbUp).        *)
(*                                                                         *)
(* JSON scalars are strings: Null, JTrue and JFalse stand for null, true   *)
(* and false, every other string is a JSON string.  A request body is the  *)
(* value request.get_json() returns: None (no body, or the body `null`) or *)
(* a JSON object, modelled as a function from its keys to scalars.         *)
(***************************************************************************)
EXTENDS Integers, Sequences, FiniteSets, TLC

\* ---- bounds of the model ------------------------------------------------
MaxId == 2        \* values the id sequence hands out: 1..MaxId
MaxClock == 1     \* readings of the store's clock: 0..MaxClock

\* ---- program constants ----------------------------------------------------
MaxTitleLen == 100

\* ---- JSON values ----------------------------------------------------------
Null == "<null>"
JTrue == "<true>"
JFalse == "<false>"
NotBool == "yes"          \* a JSON string where a boolean is expected
LongTitle == "L101"       \* stands for a title of 101 characters

\* len() of the strings the model uses
TitleLen(s) ==
  CASE s = "" -> 0
    [] s = LongTitle -> 101
    [] OTHER -> 1

\* what request.get_json() can return: None, or a JSON object (a record is a
\* function from its keys to their values)
None == [json |-> "null", obj |-> <<>>]
Object(o) == [json |-> "object", obj |-> o]

\* the bodies sent to POST /api/tasks
CreateBodies ==
  {None,
   Object(<<>>),
   Object([completed |-> JTrue]),
   Object([title |-> "A"]),
   Object([title |-> "B", description |-> "d", completed |-> JTrue]),
   Object([title |-> LongTitle]),
   Object([title |-> "A", completed |-> NotBool]),
   Object([title |-> Null, description |-> "d"])}

\* the bodies sent to PUT /api/tasks/<task_id>
UpdateBodies ==
  {None,
   Object(<<>>),
   Object([id |-> "99"]),
   Object([completed |-> JTrue]),
   Object([title |-> "B", description |-> "d", completed |-> JTrue]),
   Object([title |-> Null, description |-> "d"])}

\* mutant of Truthy: `data is not None` in place of the truth value of `data`
TruthyNotNone(data) == data.json = "object"

\* Python truth value of `data`: None and the empty dict are falsy
Truthy(data) == data.json = "object" /\ DOMAIN data.obj # {}

\* `key in data`
HasKey(data, k) == data.json = "object" /\ k \in DOMAIN data.obj

\* data.get(key, default)
Get(data, k, default) == IF k \in DOMAIN data.obj THEN data.obj[k] ELSE default

VARIABLES
  tasks,     \* the Task table: a function from the ids of the rows to the rows
  nextId,    \* next value of the id sequence of the table
  now,       \* the store's clock at the latest transaction
  dbUp,      \* whether the latest request reached the store
  pre,       \* the Task table as it was when the latest request began
  resp,      \* the latest request and its response
  created,   \* history: the ids of the rows inserted so far, oldest first
  deleted    \* history: the ids of the rows removed so far

vars == <<tasks, nextId, now, dbUp, pre, resp, created, deleted>>

Ids == 1..MaxId
Times == 0..MaxClock


\* ---- the Task model and its serialisation ---------------------------------

\* datetime.isoformat(): the timestamp as text
isoformat(t) == [iso |-> t]

\* Task.to_dict (stored rows always carry both timestamps: server_default)
to_dict(id, row) ==
  [id |-> id,
   title |-> row.title,
   description |-> row.description,
   completed |-> row.completed,
   created_at |-> isoformat(row.created_at),
   updated_at |-> isoformat(row.updated_at)]

\* mutant of NewTask: data.get(key) without the default values
NewTaskNoDefault(data) ==
  [title |-> Get(data, "title", Null),
   description |-> Get(data, "description", Null),
   completed |-> Get(data, "completed", Null)]

\* Task(title=..., description=..., completed=...) of create_task
NewTask(data) ==
  [title |-> Get(data, "title", Null),
   description |-> Get(data, "description", ""),
   completed |-> Get(data, "completed", JFalse)]

\* mutant of TitleMissing: the test of the `title` key is left out
TitleMissingLoose(data) == ~Truthy(data)

\* `not data or 'title' not in data`
TitleMissing(data) == ~Truthy(data) \/ ~HasKey(data, "title")

\* mutant of Merge: a full replacement, absent keys reset to the defaults
MergeReplace(row, data) ==
  [row EXCEPT !.title = Get(data, "title", @),
              !.description = Get(data, "description", ""),
              !.completed = Get(data, "completed", JFalse)]

\* the three assignments of update_task
Merge(row, data) ==
  [row EXCEPT !.title = Get(data, "title", @),
              !.description = Get(data, "description", @),
              !.completed = Get(data, "completed", @)]

\* ---- the store -------------------------------------------------------------

\* db.Boolean accepts True, False and None only
IsBoolean(v) == v \in {JTrue, JFalse, Null}

\* title: String(100), nullable=False
TitleAccepted(v) == v # Null /\ TitleLen(v) <= MaxTitleLen

\* The exception a flush of the INSERT or UPDATE of `t` raises, or "ok"
FlushError(t, up) ==
  IF ~IsBoolean(t.completed) THEN "StatementError"
  ELSE IF ~up THEN "OperationalError"
  ELSE IF t.title = Null THEN "IntegrityError"
  ELSE IF ~TitleAccepted(t.title) THEN "DataError"
  ELSE "ok"

\* errors raised by the store after it evaluated the column defaults
StoreSide == {"IntegrityError", "DataError"}

\* Task.query.get_or_404(task_id): the exception it raises, or "ok"
get_or_404(rows, task_id, up) ==
  IF ~up THEN "OperationalError"
  ELSE IF task_id \notin DOMAIN rows THEN "NotFound"
  ELSE "ok"

\* mutant of AssignedId: one more than the largest id in the table
AssignedIdFromMax(rows, seq) ==
  IF DOMAIN rows = {} THEN 1
  ELSE (CHOOSE m \in DOMAIN rows : \A i \in DOMAIN rows : i <= m) + 1

\* the id the store gives an inserted row: the next value of the sequence
AssignedId(rows, seq) == seq

\* mutant of Remove: the DELETE never reaches the table
RemoveNothing(rows, task_id) == rows

\* DELETE FROM task WHERE id = task_id
Remove(rows, task_id) == [i \in DOMAIN rows \ {task_id} |-> rows[i]]

\* mutant of rollback: the pending changes are written
rollbackKeepsStaged(committed, staged) == staged

\* db.session.rollback(): the pending changes are dropped
rollback(committed, staged) == committed

\* ---- exceptions and responses ----------------------------------------------

\* the classes `except Exception` catches: werkzeug's NotFound is one of them
ExceptionClasses ==
  {"NotFound", "OperationalError", "IntegrityError", "DataError",
   "StatementError", "TypeError", "KeyError"}

\* the status Flask's error handlers give an exception that leaves the view
HttpCode(exc) == IF exc = "NotFound" THEN 404 ELSE 500

\* status of the response when `exc` is raised inside the try block
HandlerStatus(exc) == IF exc \in ExceptionClasses THEN 500 ELSE HttpCode(exc)

\* str(e)
Str(exc) == IF exc = "NotFound" THEN "404 Not Found" ELSE exc

NoHealth == [status |-> "", database |-> ""]

Response(op, task_id, data, status, error, body, health) ==
  [op |-> op, task_id |-> task_id, data |-> data, status |-> status,
   error |-> error, body |-> body, health |-> health]

\* db.func.now() is an SQL expression object; jsonify raises TypeError on it
SqlFuncNow == "<func.now()>"
JsonSerializable(v) == v # SqlFuncNow

\* mutant of Orders: ORDER BY created_at ASC
OrdersAscending(rows) ==
  LET n == Cardinality(DOMAIN rows)
  IN {s \in [1..n -> DOMAIN rows] :
        /\ \A i, j \in 1..n : i # j => s[i] # s[j]
        /\ \A i, j \in 1..n :
             i < j => rows[s[i]].created_at <= rows[s[j]].created_at}

\* ORDER BY created_at DESC: the store may return equal keys in any order
Orders(rows) ==
  LET n == Cardinality(DOMAIN rows)
  IN {s \in [1..n -> DOMAIN rows] :
        /\ \A i, j \in 1..n : i # j => s[i] # s[j]
        /\ \A i, j \in 1..n :
             i < j => rows[s[i]].created_at >= rows[s[j]].created_at}

\* ---- the handlers ----------------------------------------------------------

Init ==
  /\ tasks = <<>>
  /\ nextId = 1
  /\ now = 0
  /\ dbUp = TRUE
  /\ pre = <<>>
  /\ created = <<>>
  /\ deleted = {}
  /\ resp = Response("none", 0, None, 0, "", <<>>, NoHealth)

\* GET /api/tasks
get_tasks(up, order) ==
  /\ pre' = tasks
  /\ dbUp' = up
  /\ UNCHANGED <<tasks, nextId, now, created, deleted>>
  /\ IF up
     THEN resp' = Response("list", 0, None, 200, "",
                           [i \in DOMAIN order |-> to_dict(order[i], tasks[order[i]])],
                           NoHealth)
     ELSE resp' = Response("list", 0, None, HandlerStatus("OperationalError"),
                           Str("OperationalError"), <<>>, NoHealth)

\* POST /api/tasks
create_task(data, up, t) ==
  /\ pre' = tasks
  /\ dbUp' = up
  /\ UNCHANGED deleted
  /\ IF TitleMissing(data)
     THEN /\ resp' = Response("create", 0, data, 400, "Title is required",
                              <<>>, NoHealth)
          /\ UNCHANGED <<tasks, nextId, now, created>>
     ELSE LET new_task == NewTask(data)
              \* data['title'] raises KeyError when the key is missing
              exc == IF ~HasKey(data, "title") THEN "KeyError"
                     ELSE FlushError(new_task, up)
              id == AssignedId(tasks, nextId)
              row == [title |-> new_task.title,
                      description |-> new_task.description,
                      completed |-> new_task.completed,
                      created_at |-> t,
                      updated_at |-> t]
              staged == [i \in DOMAIN tasks \cup {id} |->
                           IF i = id THEN row ELSE tasks[i]]
          IN /\ nextId <= MaxId
             /\ IF exc = "ok"
                THEN /\ tasks' = staged
                     /\ nextId' = nextId + 1
                     /\ now' = t
                     /\ created' = Append(created, id)
                     /\ resp' = Response("create", 0, data, 201, "",
                                         <<to_dict(id, row)>>, NoHealth)
                ELSE /\ tasks' = rollback(tasks, staged)
                     /\ nextId' \in (IF exc \in StoreSide
                                     THEN {nextId, nextId + 1} ELSE {nextId})
                     /\ now' = now
                     /\ created' = created
                     /\ resp' = Response("create", 0, data, HandlerStatus(exc),
                                         Str(exc), <<>>, NoHealth)

\* PUT /api/tasks/<task_id>
update_task(task_id, data, up, t) ==
  /\ pre' = tasks
  /\ dbUp' = up
  /\ UNCHANGED <<nextId, created, deleted>>
  /\ LET found == get_or_404(tasks, task_id, up)
     IN IF found # "ok"
        THEN /\ tasks' = rollback(tasks, tasks)
             /\ now' = now
             /\ resp' = Response("update", task_id, data, HandlerStatus(found),
                                 Str(found), <<>>, NoHealth)
        ELSE IF ~Truthy(data)
        THEN /\ UNCHANGED <<tasks, now>>
             /\ resp' = Response("update", task_id, data, 400,
                                 "No data provided", <<>>, NoHealth)
        ELSE LET task == Merge(tasks[task_id], data)
                 dirty == task # tasks[task_id]
                 exc == IF dirty THEN FlushError(task, up) ELSE "ok"
                 row == IF dirty THEN [task EXCEPT !.updated_at = t] ELSE task
                 staged == [tasks EXCEPT ![task_id] = row]
             IN IF exc = "ok"
                THEN /\ tasks' = staged
                     /\ now' = IF dirty THEN t ELSE now
                     /\ resp' = Response("update", task_id, data, 200, "",
                                         <<to_dict(task_id, row)>>, NoHealth)
                ELSE /\ tasks' = rollback(tasks, staged)
                     /\ now' = now
                     /\ resp' = Response("update", task_id, data,
                                         HandlerStatus(exc), Str(exc), <<>>,
                                         NoHealth)

\* DELETE /api/tasks/<task_id>
delete_task(task_id, up) ==
  /\ pre' = tasks
  /\ dbUp' = up
  /\ UNCHANGED <<nextId, now, created>>
  /\ LET found == get_or_404(tasks, task_id, up)
     IN IF found # "ok"
        THEN /\ tasks' = rollback(tasks, tasks)
             /\ deleted' = deleted
             /\ resp' = Response("delete", task_id, None, HandlerStatus(found),
                                 Str(found), <<>>, NoHealth)
        ELSE /\ tasks' = Remove(tasks, task_id)
             /\ deleted' = deleted \cup {task_id}
             /\ resp' = Response("delete", task_id, None, 204, "", <<>>,
                                 NoHealth)

\* GET /health
health_check(up) ==
  /\ pre' = tasks
  /\ dbUp' = up
  /\ UNCHANGED <<tasks, nextId, now, created, deleted>>
  /\ LET exc == IF ~up THEN "OperationalError"
                ELSE IF ~JsonSerializable(SqlFuncNow) THEN "TypeError"
                ELSE "ok"
     IN IF exc = "ok"
        THEN resp' = Response("health", 0, None, 200, "", <<>>,
                              [status |-> "healthy", database |-> "connected"])
        ELSE resp' = Response("health", 0, None, 500, Str(exc), <<>>,
                              [status |-> "unhealthy", database |-> ""])

\* the store's clock when a request reads it: it never runs backwards
Clock(up) == IF up THEN {now, now + 1} \cap Times ELSE {now}

Next ==
  \/ \E up \in BOOLEAN : \E order \in Orders(tasks) : get_tasks(up, order)
  \/ \E data \in CreateBodies, up \in BOOLEAN :
       \E t \in Clock(up) : create_task(data, up, t)
  \/ \E task_id \in Ids, data \in UpdateBodies, up \in BOOLEAN :
       \E t \in Clock(up) : update_task(task_id, data, up, t)
  \/ \E task_id \in Ids, up \in BOOLEAN : delete_task(task_id, up)
  \/ \E up \in BOOLEAN : health_check(up)

Spec == Init /\ [][Next]_vars


\* ---- vocabulary of the properties --------------------------------------------

\* the ids of the Tasks in the body of the latest response
BodyIds == {resp.body[i].id : i \in DOMAIN resp.body}

\* the latest request named an identifier and reached the store
Found == dbUp /\ resp.task_id \in DOMAIN pre
Missing == dbUp /\ resp.task_id \notin DOMAIN pre

\* the latest request left every row as it was
RowsUnchanged ==
  /\ DOMAIN tasks = DOMAIN pre
  /\ \A i \in DOMAIN pre : tasks[i] = pre[i]

\* the Create of row a completed before the Create of row b began
CreatedBefore(a, b) ==
  \E i, j \in DOMAIN created : i < j /\ created[i] = a /\ created[j] = b

ListOk == resp.op = "list" /\ resp.status = 200

\* the List result holds every persisted Task exactly once
ListComplete ==
  /\ Len(resp.body) = Cardinality(DOMAIN tasks)
  /\ BodyIds = DOMAIN tasks
  /\ \A i \in DOMAIN resp.body : resp.body[i] = to_dict(resp.body[i].id, tasks[resp.body[i].id])

\* the List result is ordered by created_at, latest first
ListSorted ==
  \A i, j \in DOMAIN resp.body :
    i < j => resp.body[i].created_at.iso >= resp.body[j].created_at.iso

FieldKeys == {"title", "description", "completed"}

\* ---- C1 ----------------------------------------------------------------------
\* C1: Update (with any body) and Delete of an identifier that has no row
\* respond with status 404 and leave the rows unchanged.
C1_MissingIs404 ==
  (resp.op \in {"update", "delete"} /\ Missing) =>
    (resp.status = 404 /\ RowsUnchanged)

\* ---- C2 ----------------------------------------------------------------------
\* C2: Create with a body that is absent or lacks the `title` key responds with
\* status 400 and "Title is required" and persists no row.
C2_CreateWithoutTitle ==
  (resp.op = "create" /\ (resp.data.json = "null" \/ ~HasKey(resp.data, "title"))) =>
    /\ resp.status = 400
    /\ resp.error = "Title is required"
    /\ RowsUnchanged

C2_Witness ==
  /\ resp.op = "create"
  /\ resp.data.json = "object"
  /\ DOMAIN resp.data.obj = {"completed"}
  /\ resp.status = 400
  /\ DOMAIN tasks # {}

\* ---- C3 ----------------------------------------------------------------------
\* the row a successful Create added, with the fields the claim names
CreatedRowAsClaimed ==
  /\ resp.status = 201
  /\ Len(resp.body) = 1
  /\ LET id == resp.body[1].id
     IN /\ id \in Int /\ id > 0
        /\ id \notin DOMAIN pre
        /\ DOMAIN tasks = DOMAIN pre \cup {id}
        /\ \A i \in DOMAIN pre : tasks[i] = pre[i]
        /\ tasks[id].title = resp.data.obj["title"]
        /\ tasks[id].description = Get(resp.data, "description", "")
        /\ tasks[id].completed = Get(resp.data, "completed", JFalse)
        /\ tasks[id].created_at = tasks[id].updated_at
        /\ resp.body[1] = to_dict(id, tasks[id])

C4_UpdateFrame ==
  (resp.op = "update" /\ resp.status = 200) =>
    /\ resp.task_id \in DOMAIN pre
    /\ DOMAIN tasks = DOMAIN pre
    /\ \A i \in DOMAIN pre \ {resp.task_id} : tasks[i] = pre[i]
    /\ LET old == pre[resp.task_id]
           new == tasks[resp.task_id]
       IN /\ new.title = IF HasKey(resp.data, "title")
                         THEN resp.data.obj["title"] ELSE old.title
          /\ new.description = IF HasKey(resp.data, "description")
                               THEN resp.data.obj["description"] ELSE old.description
          /\ new.completed = IF HasKey(resp.data, "completed")
                             THEN resp.data.obj["completed"] ELSE old.completed
          /\ new.created_at = old.created_at
          /\ new.updated_at >= old.updated_at
          /\ resp.body = <<to_dict(resp.task_id, new)>>

C4_FullBodyWitness ==
  /\ resp.op = "update"
  /\ resp.status = 200
  /\ DOMAIN resp.data.obj = FieldKeys
  /\ pre[resp.task_id].title = "A"
  /\ tasks[resp.task_id].title = "B"

C4_Witness ==
  /\ resp.op = "update"
  /\ resp.status = 200
  /\ DOMAIN resp.data.obj = {"completed"}
  /\ Cardinality(DOMAIN tasks) = 2
  /\ pre[resp.task_id].completed = JFalse
  /\ tasks[resp.task_id].completed = JTrue
  /\ tasks[resp.task_id].updated_at > pre[resp.task_id].updated_at

\* ---- C5 ----------------------------------------------------------------------
\* C5: Delete of an identifier that has a row responds 204 with an empty body,
\* removes exactly that row, and no later List shows a deleted Task.
C5_DeleteRemoves ==
  /\ (resp.op = "delete" /\ Found) =>
       /\ resp.status = 204
       /\ resp.body = <<>>
       /\ resp.error = ""
       /\ DOMAIN tasks = DOMAIN pre \ {resp.task_id}
       /\ \A i \in DOMAIN tasks : tasks[i] = pre[i]
  /\ \A d \in deleted :
       /\ d \notin DOMAIN tasks
       /\ ListOk => d \notin BodyIds

C5_Witness ==
  /\ resp.op = "delete"
  /\ resp.status = 204
  /\ Cardinality(DOMAIN pre) = 2
  /\ Cardinality(DOMAIN tasks) = 1

C5_ListWitness ==
  /\ ListOk
  /\ deleted # {}
  /\ DOMAIN tasks # {}

\* ---- C6 ----------------------------------------------------------------------
\* C6 as stated: List returns every Task once, ordered by created_at descending,
\* and a Task created after another one precedes it, equal created_at included.
C6_Original ==
  ListOk =>
    /\ ListComplete
    /\ ListSorted
    /\ \A i, j \in DOMAIN resp.body :
         CreatedBefore(resp.body[i].id, resp.body[j].id) => j < i

\* C6 amended: List returns every Task once, ordered by created_at descending;
\* a Task created after another one precedes it when its created_at is later.
C6_ListOrder ==
  ListOk =>
    /\ ListComplete
    /\ ListSorted
    /\ \A i, j \in DOMAIN resp.body :
         (/\ CreatedBefore(resp.body[i].id, resp.body[j].id)
          /\ tasks[resp.body[i].id].created_at < tasks[resp.body[j].id].created_at)
           => j < i

C6_Witness ==
  /\ ListOk
  /\ Len(resp.body) = 2
  /\ CreatedBefore(resp.body[2].id, resp.body[1].id)
  /\ resp.body[1].created_at.iso > resp.body[2].created_at.iso

\* ---- C7 ----------------------------------------------------------------------
\* C7: Health Check responds 200/healthy/connected whenever the store is
\* reachable and 500/unhealthy whenever, and only when, it is not.
C7_HealthReflectsStore ==
  resp.op = "health" =>
    /\ dbUp => (/\ resp.status = 200
                /\ resp.health.status = "healthy"
                /\ resp.health.database = "connected")
    /\ ~dbUp => (resp.status = 500 /\ resp.health.status = "unhealthy")
    /\ resp.status = 500 => ~dbUp

\* ---- C8 ----------------------------------------------------------------------
\* C8: no Create is given the id of an earlier Create, deleted or not, and no
\* Update changes the id of a row, an `id` key in its body included.
C8_IdsNeverReused ==
  /\ \A i, j \in DOMAIN created : i # j => created[i] # created[j]
  /\ (resp.op = "create" /\ resp.status = 201) =>
       /\ resp.body[1].id = created[Len(created)]
       /\ resp.body[1].id \notin DOMAIN pre \cup deleted
  /\ (resp.op = "update" /\ resp.status = 200) =>
       /\ DOMAIN tasks = DOMAIN pre
       /\ resp.body[1].id = resp.task_id

C8_Witness ==
  /\ resp.op = "create"
  /\ resp.status = 201
  /\ Len(created) = 2
  /\ created[1] \in deleted

C8_UpdateWitness ==
  /\ resp.op = "update"
  /\ resp.status = 200
  /\ HasKey(resp.data, "id")

\* ---- C9 ----------------------------------------------------------------------
\* the stored title, description and completed of the updated row are untouched
FieldsUntouched ==
  /\ resp.task_id \in DOMAIN tasks
  /\ tasks[resp.task_id].title = pre[resp.task_id].title
  /\ tasks[resp.task_id].description = pre[resp.task_id].description
  /\ tasks[resp.task_id].completed = pre[resp.task_id].completed

NoDataProvided ==
  /\ resp.status = 400
  /\ resp.error = "No data provided"
  /\ RowsUnchanged

\* C9 as stated: Update of an existing row responds 400 "No data provided" when
\* the body is absent, and 200 with the fields untouched for every JSON object
\* with none of the three keys, the empty object included.
C9_Original ==
  (resp.op = "update" /\ Found) =>
    /\ resp.data.json = "null" => NoDataProvided
    /\ (resp.data.json = "object" /\ DOMAIN resp.data.obj \cap FieldKeys = {}) =>
         (resp.status = 200 /\ FieldsUntouched)

\* C9 amended: 400 "No data provided" when the body is absent or the empty
\* object; a non-empty object never gets 400, and one with none of the three
\* keys gets 200 with the fields untouched.
C9_UpdateBody ==
  (resp.op = "update" /\ Found) =>
    /\ (resp.data.json = "null" \/ DOMAIN resp.data.obj = {}) => NoDataProvided
    /\ (resp.data.json = "object" /\ DOMAIN resp.data.obj # {}) =>
         /\ resp.status # 400
         /\ DOMAIN resp.data.obj \cap FieldKeys = {} =>
              (resp.status = 200 /\ FieldsUntouched)

C9_Witness ==
  /\ resp.op = "update"
  /\ Found
  /\ resp.data.json = "object"
  /\ DOMAIN resp.data.obj = {}
  /\ resp.status = 400

C9_OtherKeyWitness ==
  /\ resp.op = "update"
  /\ Found
  /\ DOMAIN resp.data.obj = {"id"}
  /\ resp.status = 200

\* ---- C10 ---------------------------------------------------------------------
\* C10: a Create, Update or Delete that ends with status 500 leaves every row
\* with every field as it was, and no persisted row ever has a null title.
C10_Atomic ==
  /\ (resp.op \in {"create", "update", "delete"} /\ resp.status = 500) =>
       RowsUnchanged
  /\ \A i \in DOMAIN tasks : tasks[i].title # Null

C10_Witness ==
  /\ resp.op = "update"
  /\ resp.status = 500
  /\ Found
  /\ DOMAIN resp.data.obj = {"title", "description"}
  /\ resp.data.obj["title"] = Null
  /\ pre[resp.task_id].description = ""

====
